---- MODULE Spec2Model ----
(***************************************************************************)
(* UHCI host-controller driver of kernel/usb/uhci.rs: controller init,     *)
(* port probe, SET_ADDRESS / GET_DESCRIPTOR control transfers, the walk of *)
(* the configuration blob and the kuhci_hid poller tasks, together with    *)
(* the host controller that walks the frame list.                          *)
(***************************************************************************)
EXTENDS Integers, Sequences, FiniteSets, TLC

(***************************************************************************)
(* Bounds of the model.                                                    *)
(***************************************************************************)
\* frames the controller may advance one by one after an idle period
MaxFrames == 3
\* kuhci_hid contexts that may be spawned
MaxPollers == 2

(***************************************************************************)
(* Fixed-width arithmetic.                                                 *)
(***************************************************************************)
RECURSIVE BitAnd(_, _)
BitAnd(a, b) ==
    IF a = 0 \/ b = 0 THEN 0
    ELSE (a % 2) * (b % 2) + 2 * BitAnd(a \div 2, b \div 2)

RECURSIVE BitOr(_, _)
BitOr(a, b) ==
    IF a = 0 THEN b
    ELSE IF b = 0 THEN a
    ELSE (IF a % 2 = 1 \/ b % 2 = 1 THEN 1 ELSE 0) + 2 * BitOr(a \div 2, b \div 2)

U16(x) == x % 65536
Shl16(a, n) == U16(a * 2 ^ n)

\* A u32 that uses all 32 bits (the token of a TD) is the pair <<high half, low
\* half>> of 16-bit halves; a u32 that holds an address or a ctrl_sts stays below
\* 2^31 and is a plain number (usize is 32 bits wide on the target).
\* x as u32, for -2^31 <= x < 2^31
U32(x) ==
    IF x >= 0 THEN <<x \div 65536, x % 65536>>
    ELSE <<65535 - ((-x - 1) \div 65536), 65535 - ((-x - 1) % 65536)>>
Or32(a, b) == <<BitOr(a[1], b[1]), BitOr(a[2], b[2])>>
And32(a, b) == <<BitAnd(a[1], b[1]), BitAnd(a[2], b[2])>>
\* a << n on a u32, 0 <= n < 32: the bits shifted out are lost
Shl32(a, n) ==
    IF n < 16
    THEN <<(a[1] * 2 ^ n + (a[2] * 2 ^ n) \div 65536) % 65536, (a[2] * 2 ^ n) % 65536>>
    ELSE <<(a[2] * 2 ^ (n - 16)) % 65536, 0>>
\* 1 << n for a bit of ctrl_sts, n < 31
Bit(n) == 2 ^ n

(***************************************************************************)
(* Program constants.                                                      *)
(***************************************************************************)
DESC_DEV == 1
DESC_CFG == 2
DESC_INT == 4
DESC_END == 5
DESC_HID == 33
\* mem::size_of::<Setup>(), a packed struct of u8, u8, u16, u16, u16
SizeOfSetup == 8
\* mem::size_of_val(&*desc_dev), the packed DeviceDescriptor
SizeOfDeviceDescriptor == 18
\* entries of the frame list
FrameListLen == 1024
\* desc_cfg_len
DescCfgLen == 1023
\* FRNUM is an 11-bit frame counter
FrnumModulus == 2048

Slots == 0 .. (FrameListLen - 1)
Ports == {1, 2}

\* ctrl_sts bits
ACTIVE == Bit(23)
IOC == Bit(25)
\* Stalled, DataBufferError, BabbleDetected, CRCTimeout, BitstuffError: the
\* error bits the controller sets together with clearing Active
HaltingErrorBits == {22, 21, 20, 18, 17}
\* bits 22..17 of ctrl_sts
ErrorMask == 63 * Bit(17)
\* PIDs
PID_SETUP == 45
PID_IN == 105
PID_OUT == 225

(***************************************************************************)
(* Physical memory collaborator: every allocation is a fresh cluster.      *)
(***************************************************************************)
ClusterSize == 4096
HeapBase == 1048576
MaxClusters == 16
Clusters == {HeapBase + k * ClusterSize : k \in 0 .. (MaxClusters - 1)}

\* the lowest free cluster
Alloc(used) ==
    CHOOSE a \in Clusters \ used : \A b \in Clusters \ used : a <= b

\* n allocations in a row
RECURSIVE AllocSeq(_, _)
AllocSeq(used, n) ==
    IF n = 0 THEN <<>>
    ELSE LET a == Alloc(used) IN <<a>> \o AllocSeq(used \cup {a}, n - 1)

(***************************************************************************)
(* Descriptor layouts.                                                     *)
(***************************************************************************)
Td(link_ptr, ctrl_sts, token, buffer) ==
    [link_ptr |-> link_ptr, ctrl_sts |-> ctrl_sts, token |-> token, buffer |-> buffer]

Qh(head_ptr, element_ptr) ==
    [head_ptr |-> head_ptr, element_ptr |-> element_ptr]

Setup(request_type, request, value, index, len) ==
    [request_type |-> request_type, request |-> request, value |-> value,
     index |-> index, len |-> len]

\* the address part of a link pointer or frame-list entry
PtrOf(entry) == entry - (entry % 16)
IsActive(td) == BitAnd(td.ctrl_sts, ACTIVE) # 0
\* bits 7..0 and bits 31..21 of a token
TokenPid(token) == token[2] % 256
TokenMaxLen(token) == token[1] \div 32

(***************************************************************************)
(* Configuration blobs a device may return (the bytes after them in the    *)
(* zeroed 1023-byte buffer stay 0).                                        *)
(***************************************************************************)
CfgHeader(total) == <<9, 2, total % 256, total \div 256, 1, 1, 0, 128, 50>>
IntDesc(class) == <<9, 4, 0, 0, 1, class, 1, 2, 0>>
HidDesc == <<9, 33, 17, 1, 0, 1, 34, 52, 0>>
EndDesc(addr, attr, mps) == <<7, 5, addr, attr, mps % 256, mps \div 256, 10>>

\* the sample blob of the specification: HID mouse, interrupt IN endpoint 0x81
SampleBlob == CfgHeader(34) \o IntDesc(3) \o HidDesc \o EndDesc(129, 3, 4)
\* an OUT interrupt endpoint after the HID descriptor
OutEndpointBlob == CfgHeader(34) \o IntDesc(3) \o HidDesc \o EndDesc(1, 3, 4)
\* a bulk IN endpoint after the HID descriptor
BulkEndpointBlob == CfgHeader(34) \o IntDesc(3) \o HidDesc \o EndDesc(129, 2, 4)
\* no HID descriptor at all
NoHidBlob == CfgHeader(25) \o IntDesc(8) \o EndDesc(129, 3, 4)
\* a descriptor whose length byte is 0 at offset 18, before an endpoint
ZeroLengthBlob ==
    CfgHeader(34) \o IntDesc(3) \o <<0, 33, 17, 1, 0, 1, 34, 52, 0>> \o EndDesc(129, 3, 4)

\* values a device reports in DeviceDescriptor.configurations
ConfigurationCounts == {0, 1}
\* an endpoint descriptor whose length byte is 0, after the HID descriptor
ZeroLengthEndpointBlob ==
    CfgHeader(34) \o IntDesc(3) \o HidDesc \o <<0, 5, 129, 3, 4, 0, 10>>

\* a HID interface without endpoint, then a mass-storage interface with an
\* interrupt IN endpoint
TwoInterfaceBlob ==
    CfgHeader(43) \o IntDesc(3) \o HidDesc \o IntDesc(8) \o EndDesc(129, 3, 4)
\* 1023 bytes of 0xFF: every length byte is 255 and total_length is 65535
AllOnesBlob == [k \in 1 .. DescCfgLen |-> 255]

Blobs == {SampleBlob, OutEndpointBlob, BulkEndpointBlob, NoHidBlob, ZeroLengthBlob,
          ZeroLengthEndpointBlob, TwoInterfaceBlob, AllOnesBlob}

\* values a read outside the 1023-byte buffer may produce
OutOfBoundsBytes == {0, 255}

\* data a HID device may return to an interrupt IN transaction: nothing, one
\* byte, a boot-protocol report cut to the endpoint's packet size
HidTransfers == {<<>>, <<1>>, <<1, 0, 64, 0>>}
\* values of the bytes after the in_len bytes the poller zeroes
UninitBytes == {0, 255}

\* ptr::read(desc_cfg_buf.offset(i)): the set of values the read may yield
ByteAt(data, i) ==
    IF i < 0 \/ i >= DescCfgLen THEN OutOfBoundsBytes
    ELSE IF i < Len(data) THEN {data[i + 1]}
    ELSE {0}

(***************************************************************************)
(* State.                                                                  *)
(***************************************************************************)
VARIABLES
    \* controller registers and the port's connect status
    usbcmd, frnum, flbaseadd, portsc, present,
    \* the controller's position inside the current frame
    hc_td, hc_qh, age,
    \* DMA memory
    allocated, frame_list_ptr, frame_list, tds, qhs, setups, desc_dev, desc_cfg_buf,
    \* the task running Uhci::init
    pc, port, address, ctl, configuration, desc_cfg, i, hid,
    \* the kuhci_hid contexts, the running context, the holder of the Intex
    pollers, running, intex,
    \* the display mode and the events pushed by the latest pass of a poller
    mode_info, events,
    \* history: polls of ctrl_sts by the running context since its last yield
    polls,
    \* history: the port I/O writes and device() calls of Uhci::init, in order
    io_log

hw_vars == <<usbcmd, frnum, flbaseadd, portsc, present>>
hc_vars == <<hc_td, hc_qh, age>>
mem_vars == <<allocated, frame_list_ptr, frame_list, tds, qhs, setups, desc_dev, desc_cfg_buf>>
init_vars == <<pc, port, address, ctl, configuration, desc_cfg, i, hid>>
task_vars == <<pollers, running, intex>>
env_vars == <<mode_info, events>>
hist_vars == <<polls>>
vars == <<hw_vars, hc_vars, mem_vars, init_vars, task_vars, env_vars, hist_vars, io_log>>

\* context identifiers: 0 is the task that runs Uhci::init, p >= 1 is pollers[p]
InitTask == 0
NoTask == -1

\* FRNUM values the controller may show after an idle period
FrnumSamples == {0, 1022, 2046}
\* values of memory that was allocated and not yet written
UninitWords == {0, 1}

NoCall ==
    [fn |-> "none", kind |-> 0, out_td |-> 0, in_td |-> 0, setup |-> 0, setup_td |-> 0,
     queue_head |-> 0, frnum_read |-> 0, frame |-> 0]
NoBuffer == [addr |-> 0, data |-> <<>>]
NoDevice == [addr |-> 0, configurations |-> 0]
Empty == [x \in {} |-> 0]
\* the graphics mode in use
VBEMODEINFO == [xresolution |-> 1024, yresolution |-> 768]
\* an entry of io_log
Io(reg, p, value) == [reg |-> reg, port |-> p, value |-> value]

Init ==
    /\ usbcmd = 0
    /\ frnum \in FrnumSamples
    /\ flbaseadd = 0
    /\ portsc = [p \in Ports |-> 0]
    /\ present \in [Ports -> BOOLEAN]
    /\ hc_td = 0 /\ hc_qh = 0 /\ age = 0
    /\ allocated = {}
    /\ frame_list_ptr = 0
    /\ \E w \in UninitWords : frame_list = [fill |-> w, set |-> Empty]
    /\ tds = Empty /\ qhs = Empty /\ setups = Empty
    /\ desc_dev = NoDevice
    /\ desc_cfg_buf = NoBuffer
    /\ pc = "usbcmd_reset"
    /\ port = 1
    /\ address = 0
    /\ ctl = NoCall
    /\ configuration = 0
    /\ desc_cfg = [length |-> 0, total_length |-> 0]
    /\ i = 0
    /\ hid = FALSE
    /\ pollers = <<>>
    /\ running = InitTask
    /\ intex = NoTask
    /\ mode_info = VBEMODEINFO
    /\ events = <<>>
    /\ polls = 0
    /\ io_log = <<>>

\* identifiers of the kuhci_hid contexts
PollerIds == 1 .. Len(pollers)

\* f with the keys of ks removed, and f extended by g
Without(f, ks) == [k \in DOMAIN f \ ks |-> f[k]]
With(f, g) == [k \in DOMAIN f \cup DOMAIN g |-> IF k \in DOMAIN g THEN g[k] ELSE f[k]]

(***************************************************************************)
(* The frame list: 1024 words, held as the value most slots have (fill)    *)
(* and the slots that differ from it (set).                                *)
(***************************************************************************)
\* frame_list[s]
FrameAt(s) == IF s \in DOMAIN frame_list.set THEN frame_list.set[s] ELSE frame_list.fill
\* frame_list after ptr::write(frame_list.offset(s), v)
FrameWrite(s, v) ==
    IF v = frame_list.fill
    THEN [frame_list EXCEPT !.set = Without(@, {s})]
    ELSE [frame_list EXCEPT !.set = With(@, s :> v)]
\* frame_list after every slot was written with v
FrameFill(v) == [fill |-> v, set |-> Empty]

(***************************************************************************)
(* Frame-list slot arithmetic.                                             *)
(***************************************************************************)
\* the mask 0x7FF instead of 0x3FF
SlotForWideMask(f) == BitAnd(U16(f + 2), 2047)

\* (frnum.read() + 2) & 0x3FF on a u16
SlotFor(f) == BitAnd(U16(f + 2), 1023)
\* the value written to release a slot
Terminate == 1

(***************************************************************************)
(* TD chains of the control transfers.                                     *)
(***************************************************************************)
\* set_address: the IN status TD
SetAddressInTd == Td(1, Bit(23), Or32(Shl32(U32(2047), 21), U32(105)), 0)
SetAddressSetup(addr) == Setup(0, 5, U16(addr), 0, 0)
\* the Setup TD without the depth-first bit and with MaxLength = size_of::<Setup>()
SetAddressSetupTdPlain(in_td, setup) ==
    Td(in_td, Bit(23), Or32(Shl32(U32(SizeOfSetup), 21), U32(45)), setup)

SetAddressSetupTd(in_td, setup) ==
    Td(BitOr(in_td, 4), Bit(23), Or32(Shl32(U32(SizeOfSetup - 1), 21), U32(45)), setup)
QueueHead(setup_td) == Qh(1, setup_td)

\* descriptor: the OUT status TD, the IN data TD, the Setup packet and its TD
DescriptorOutTd(addr) ==
    Td(1, Bit(23), Or32(Or32(Shl32(U32(2047), 21), Shl32(U32(addr), 8)), U32(225)), 0)
\* the data TD with MaxLength = descriptor_len instead of descriptor_len - 1
DescriptorInTdFullLength(out_td, addr, descriptor_ptr, descriptor_len) ==
    Td(BitOr(out_td, 4), Bit(23),
       Or32(Or32(Shl32(U32(descriptor_len), 21), Shl32(U32(addr), 8)), U32(105)),
       descriptor_ptr)

DescriptorInTd(out_td, addr, descriptor_ptr, descriptor_len) ==
    Td(BitOr(out_td, 4), Bit(23),
       Or32(Or32(Shl32(U32(descriptor_len - 1), 21), Shl32(U32(addr), 8)), U32(105)),
       descriptor_ptr)
DescriptorSetup(descriptor_type, descriptor_index, descriptor_len) ==
    Setup(128, 6, BitOr(Shl16(descriptor_type, 8), descriptor_index), 0,
          U16(descriptor_len))
DescriptorSetupTd(in_td, addr, setup) ==
    Td(BitOr(in_td, 4), Bit(23),
       Or32(Or32(Shl32(U32(SizeOfSetup - 1), 21), Shl32(U32(addr), 8)), U32(45)),
       setup)

\* kuhci_hid: the interrupt IN TD
HidInTd(in_len, endpoint, addr, in_ptr) ==
    Td(1, BitOr(Bit(25), Bit(23)),
       Or32(Or32(Or32(Shl32(U32(in_len - 1), 21), Shl32(U32(endpoint), 15)),
                 Shl32(U32(addr), 8)), U32(105)),
       in_ptr)

(***************************************************************************)
(* The host controller: once per frame it fetches frame_list[FRNUM mod     *)
(* 1024] and executes the TDs it finds, clearing Active on completion.     *)
(***************************************************************************)
Running == BitAnd(usbcmd, 1) = 1

\* <<td, qh>> the controller starts the frame with, <<0, 0>> for an empty slot
Fetch(entry) ==
    IF BitAnd(entry, 1) = 1 THEN <<0, 0>>
    ELSE IF BitAnd(entry, 2) = 2
         THEN LET qh == PtrOf(entry) IN
              IF qh \notin DOMAIN qhs \/ BitAnd(qhs[qh].element_ptr, 1) = 1
              THEN <<0, 0>>
              ELSE <<PtrOf(qhs[qh].element_ptr), qh>>
         ELSE <<PtrOf(entry), 0>>

\* start of the next frame
HcFrame ==
    /\ Running
    /\ hc_td = 0
    /\ age < MaxFrames
    /\ frnum' = (frnum + 1) % FrnumModulus
    /\ age' = age + 1
    /\ frame_list # FrameFill(1)
    /\ LET f == Fetch(FrameAt(frnum' % FrameListLen)) IN
       /\ hc_td' = f[1]
       /\ hc_qh' = f[2]
    /\ UNCHANGED <<env_vars, io_log, usbcmd, flbaseadd, portsc, present, mem_vars, init_vars, task_vars,
                   hist_vars>>

\* any number of frames over a frame list that holds only Terminate entries
HcIdle ==
    /\ Running
    /\ hc_td = 0
    /\ frame_list = FrameFill(1)
    /\ frnum' \in FrnumSamples \ {frnum}
    /\ age' = 0
    /\ UNCHANGED <<env_vars, io_log, usbcmd, flbaseadd, portsc, present, hc_td, hc_qh, mem_vars, init_vars,
                   task_vars, hist_vars>>

\* the TD the controller executes after td, 0 when the frame's work ends
NextTd(td) ==
    IF BitAnd(td.link_ptr, 1) = 1 THEN 0
    ELSE IF BitAnd(td.link_ptr, 4) = 4 THEN PtrOf(td.link_ptr)
    ELSE 0

\* numbers of bytes the transaction of td may move
ActualLengths(td) ==
    IF TokenPid(td.token) = PID_SETUP THEN {SizeOfSetup}
    ELSE IF TokenMaxLen(td.token) = 2047 THEN {0}
    ELSE {0, TokenMaxLen(td.token) + 1}

\* ctrl_sts after a transaction of n bytes: Active and the status bits cleared
Completed(ctrl_sts, n) ==
    BitOr((ctrl_sts \div Bit(24)) * Bit(24), (n + 2047) % 2048)

\* the buffer after the controller wrote the bytes of data to its start
Received(buf, data) ==
    [k \in 1 .. Len(buf) |-> IF k <= Len(data) THEN data[k] ELSE buf[k]]

HcComplete ==
    /\ Running
    /\ hc_td # 0
    /\ hc_td \in DOMAIN tds
    /\ LET td == tds[hc_td] IN
       IF ~IsActive(td)
       THEN /\ hc_td' = 0 /\ hc_qh' = 0
            /\ UNCHANGED <<tds, qhs, desc_dev, desc_cfg_buf, pollers>>
       ELSE /\ hc_td' = NextTd(td)
            /\ hc_qh' = IF NextTd(td) = 0 THEN 0 ELSE hc_qh
            /\ qhs' = IF hc_qh \in DOMAIN qhs
                      THEN [qhs EXCEPT ![hc_qh].element_ptr = td.link_ptr]
                      ELSE qhs
            /\ IF TokenPid(td.token) = PID_IN /\ td.buffer # 0 /\ td.buffer = desc_dev.addr
               THEN /\ \E n \in ConfigurationCounts :
                          desc_dev' = [desc_dev EXCEPT !.configurations = n]
                    /\ tds' = [tds EXCEPT ![hc_td].ctrl_sts =
                                   Completed(td.ctrl_sts, SizeOfDeviceDescriptor)]
                    /\ UNCHANGED <<desc_cfg_buf, pollers>>
               ELSE IF TokenPid(td.token) = PID_IN /\ td.buffer # 0
                       /\ td.buffer = desc_cfg_buf.addr
               THEN /\ \E blob \in Blobs :
                          /\ desc_cfg_buf' = [desc_cfg_buf EXCEPT !.data = blob]
                          /\ tds' = [tds EXCEPT ![hc_td].ctrl_sts =
                                         Completed(td.ctrl_sts, Len(blob))]
                    /\ UNCHANGED <<desc_dev, pollers>>
               ELSE IF TokenPid(td.token) = PID_IN /\ td.buffer # 0
                       /\ \E p \in PollerIds : pollers[p].in_ptr = td.buffer
               THEN /\ \E p \in PollerIds, data \in HidTransfers :
                          /\ pollers[p].in_ptr = td.buffer
                          /\ Len(data) <= TokenMaxLen(td.token) + 1
                          /\ pollers' = [pollers EXCEPT ![p].in_buf = Received(@, data)]
                          /\ tds' = [tds EXCEPT ![hc_td].ctrl_sts =
                                         Completed(td.ctrl_sts, Len(data))]
                    /\ UNCHANGED <<desc_dev, desc_cfg_buf>>
               ELSE /\ \E n \in ActualLengths(td) :
                          tds' = [tds EXCEPT ![hc_td].ctrl_sts = Completed(td.ctrl_sts, n)]
                    /\ UNCHANGED <<desc_dev, desc_cfg_buf, pollers>>
    /\ UNCHANGED <<env_vars, io_log, hw_vars, age, allocated, frame_list_ptr, frame_list, setups, init_vars,
                   running, intex, hist_vars>>

\* the transaction fails: Active is cleared, an error bit is set, the queue stops
HcError ==
    /\ Running
    /\ hc_td # 0
    /\ hc_td \in DOMAIN tds
    /\ IsActive(tds[hc_td])
    /\ \E b \in HaltingErrorBits :
          tds' = [tds EXCEPT ![hc_td].ctrl_sts =
                      BitOr((tds[hc_td].ctrl_sts \div Bit(24)) * Bit(24), Bit(b))]
    /\ hc_td' = 0
    /\ hc_qh' = 0
    /\ UNCHANGED <<env_vars, io_log, hw_vars, age, allocated, frame_list_ptr, frame_list, qhs, setups, desc_dev,
                   desc_cfg_buf, init_vars, task_vars, hist_vars>>

(***************************************************************************)
(* Uhci::init: reset, frame list, run, port probe.                         *)
(***************************************************************************)
\* inw(portsc): the bits written, with CurrentConnectStatus in bit 0
PortscRead(p) == BitOr(BitAnd(portsc[p], 65534), IF present[p] THEN 1 ELSE 0)

\* outw(usbcmd, 1 << 2 | 1 << 1)
InitGlobalReset ==
    /\ running = InitTask /\ pc = "usbcmd_reset"
    /\ usbcmd' = BitOr(Shl16(1, 2), Shl16(1, 1))
    /\ io_log' = Append(io_log, Io("usbcmd", 0, usbcmd'))
    /\ pc' = "usbcmd_clear"
    /\ UNCHANGED <<env_vars, frnum, flbaseadd, portsc, present, hc_vars, mem_vars, port, address, ctl,
                   configuration, desc_cfg, i, hid, task_vars, hist_vars>>

\* outw(usbcmd, 0)
InitClearReset ==
    /\ running = InitTask /\ pc = "usbcmd_clear"
    /\ usbcmd' = 0
    /\ io_log' = Append(io_log, Io("usbcmd", 0, 0))
    /\ pc' = "frnum_zero"
    /\ UNCHANGED <<env_vars, frnum, flbaseadd, portsc, present, hc_vars, mem_vars, port, address, ctl,
                   configuration, desc_cfg, i, hid, task_vars, hist_vars>>

\* outw(frnum, 0)
InitFrnum ==
    /\ running = InitTask /\ pc = "frnum_zero"
    /\ frnum' = 0
    /\ io_log' = Append(io_log, Io("frnum", 0, 0))
    /\ pc' = "frame_list_alloc"
    /\ UNCHANGED <<env_vars, usbcmd, flbaseadd, portsc, present, hc_vars, mem_vars, port, address, ctl,
                   configuration, desc_cfg, i, hid, task_vars, hist_vars>>

\* memory::alloc(1024 * 4) and the loop that writes 1 to every slot
InitFrameList ==
    /\ running = InitTask /\ pc = "frame_list_alloc"
    /\ frame_list_ptr' = Alloc(allocated)
    /\ allocated' = allocated \cup {frame_list_ptr'}
    /\ frame_list' = FrameFill(1)
    /\ io_log' = Append(io_log, Io("frame_list", 0, 1))
    /\ pc' = "flbaseadd_write"
    /\ UNCHANGED <<env_vars, hw_vars, hc_vars, tds, qhs, setups, desc_dev, desc_cfg_buf, port, address,
                   ctl, configuration, desc_cfg, i, hid, task_vars, hist_vars>>

\* init goes on to Run without the write of FLBASEADD
InitFlbaseaddSkipped ==
    /\ running = InitTask /\ pc = "flbaseadd_write"
    /\ pc' = "usbcmd_run"
    /\ UNCHANGED <<env_vars, io_log, hw_vars, hc_vars, mem_vars, port, address, ctl,
                   configuration, desc_cfg, i, hid, task_vars, hist_vars>>

\* outd(flbaseadd, frame_list as u32)
InitFlbaseadd ==
    /\ running = InitTask /\ pc = "flbaseadd_write"
    /\ flbaseadd' = frame_list_ptr
    /\ io_log' = Append(io_log, Io("flbaseadd", 0, frame_list_ptr))
    /\ pc' = "usbcmd_run"
    /\ UNCHANGED <<env_vars, usbcmd, frnum, portsc, present, hc_vars, mem_vars, port, address, ctl,
                   configuration, desc_cfg, i, hid, task_vars, hist_vars>>

\* outw(usbcmd, 1)
InitRun ==
    /\ running = InitTask /\ pc = "usbcmd_run"
    /\ usbcmd' = 1
    /\ io_log' = Append(io_log, Io("usbcmd", 0, 1))
    /\ pc' = "port_reset"
    /\ port' = 1
    /\ UNCHANGED <<env_vars, frnum, flbaseadd, portsc, present, hc_vars, mem_vars, address, ctl,
                   configuration, desc_cfg, i, hid, task_vars, hist_vars>>

\* outw(portsc, 1 << 9)
PortReset ==
    /\ running = InitTask /\ pc = "port_reset"
    /\ portsc' = [portsc EXCEPT ![port] = Shl16(1, 9)]
    /\ io_log' = Append(io_log, Io("portsc", port, Shl16(1, 9)))
    /\ pc' = "port_reset_clear"
    /\ UNCHANGED <<env_vars, usbcmd, frnum, flbaseadd, present, hc_vars, mem_vars, port, address, ctl,
                   configuration, desc_cfg, i, hid, task_vars, hist_vars>>

\* outw(portsc, 0)
PortResetClear ==
    /\ running = InitTask /\ pc = "port_reset_clear"
    /\ portsc' = [portsc EXCEPT ![port] = 0]
    /\ io_log' = Append(io_log, Io("portsc", port, 0))
    /\ pc' = "port_probe"
    /\ UNCHANGED <<env_vars, usbcmd, frnum, flbaseadd, present, hc_vars, mem_vars, port, address, ctl,
                   configuration, desc_cfg, i, hid, task_vars, hist_vars>>

\* the test that finds a device whatever PORTSC reads
DeviceFoundAlways(portsc_value) == TRUE

\* inw(portsc) & 1 == 1
DeviceFound(portsc_value) == BitAnd(portsc_value, 1) = 1

\* if inw(portsc) & 1 == 1
PortProbe ==
    /\ running = InitTask /\ pc = "port_probe"
    /\ pc' = IF DeviceFound(PortscRead(port)) THEN "port_enable" ELSE "port_next"
    /\ UNCHANGED <<env_vars, io_log, hw_vars, hc_vars, mem_vars, port, address, ctl, configuration, desc_cfg,
                   i, hid, task_vars, hist_vars>>

\* every device is given address 1
AddressOfPortOne(p) == 1

\* the address init passes to device() for a port: device(frame_list, 1 | 2)
AddressOfPort(p) == p

\* outw(portsc, 4); self.device(frame_list, address)
PortEnable ==
    /\ running = InitTask /\ pc = "port_enable"
    /\ portsc' = [portsc EXCEPT ![port] = 4]
    /\ address' = AddressOfPort(port)
    /\ io_log' = io_log \o <<Io("portsc", port, 4), Io("device", port, address')>>
    /\ pc' = "set_address"
    /\ UNCHANGED <<env_vars, usbcmd, frnum, flbaseadd, present, hc_vars, mem_vars, port, ctl,
                   configuration, desc_cfg, i, hid, task_vars, hist_vars>>

\* the end of a port's block: on to port 2, or return from init
PortNext ==
    /\ running = InitTask /\ pc = "port_next"
    /\ IF port = 1
       THEN /\ port' = 2 /\ pc' = "port_reset"
       ELSE /\ port' = port /\ pc' = "done"
    /\ UNCHANGED <<env_vars, io_log, hw_vars, hc_vars, mem_vars, address, ctl, configuration, desc_cfg, i, hid,
                   task_vars, hist_vars>>

(***************************************************************************)
(* Uhci::set_address, Uhci::descriptor and the calls Uhci::device makes.   *)
(***************************************************************************)
\* set_address up to the queue head: in_td, setup, setup_td, queue_head
SetAddressBuild ==
    /\ running = InitTask /\ pc = "set_address"
    /\ LET a == AllocSeq(allocated, 4) IN
       /\ allocated' = allocated \cup {a[1], a[2], a[3], a[4]}
       /\ tds' = With(tds, (a[1] :> SetAddressInTd) @@ (a[3] :> SetAddressSetupTd(a[1], a[2])))
       /\ setups' = With(setups, a[2] :> SetAddressSetup(address))
       /\ qhs' = With(qhs, a[4] :> QueueHead(a[3]))
       /\ ctl' = [fn |-> "set_address", kind |-> 0, out_td |-> 0, in_td |-> a[1],
                  setup |-> a[2], setup_td |-> a[3], queue_head |-> a[4],
                  frnum_read |-> 0, frame |-> 0]
    /\ pc' = "ctl_frnum"
    /\ UNCHANGED <<env_vars, io_log, hw_vars, hc_vars, frame_list_ptr, frame_list, desc_dev, desc_cfg_buf, port,
                   address, configuration, desc_cfg, i, hid, task_vars, hist_vars>>

\* descriptor up to the queue head: out_td, in_td, setup, setup_td, queue_head
DescriptorBuild(used, descriptor_type, descriptor_index, descriptor_ptr, descriptor_len) ==
    LET a == AllocSeq(used, 5) IN
    /\ allocated' = used \cup {a[1], a[2], a[3], a[4], a[5]}
    /\ tds' = With(tds, (a[1] :> DescriptorOutTd(address))
                        @@ (a[2] :> DescriptorInTd(a[1], address, descriptor_ptr,
                                                   descriptor_len))
                        @@ (a[4] :> DescriptorSetupTd(a[2], address, a[3])))
    /\ setups' = With(setups, a[3] :> DescriptorSetup(descriptor_type, descriptor_index,
                                                      descriptor_len))
    /\ qhs' = With(qhs, a[5] :> QueueHead(a[4]))
    /\ ctl' = [fn |-> "descriptor", kind |-> descriptor_type, out_td |-> a[1],
               in_td |-> a[2], setup |-> a[3], setup_td |-> a[4], queue_head |-> a[5],
               frnum_read |-> 0, frame |-> 0]

\* device: alloc desc_dev, write the default, descriptor(.., DESC_DEV, 0, desc_dev, 18)
DeviceDescriptorCall ==
    /\ running = InitTask /\ pc = "descriptor_dev"
    /\ LET d == Alloc(allocated) IN
       /\ desc_dev' = [addr |-> d, configurations |-> 0]
       /\ DescriptorBuild(allocated \cup {d}, DESC_DEV, 0, d, SizeOfDeviceDescriptor)
    /\ pc' = "ctl_frnum"
    /\ UNCHANGED <<env_vars, io_log, hw_vars, hc_vars, frame_list_ptr, frame_list, desc_cfg_buf, port, address,
                   configuration, desc_cfg, i, hid, task_vars, hist_vars>>

\* for configuration in 0..configurations: alloc and zero the buffer,
\* descriptor(.., DESC_CFG, configuration, desc_cfg_buf, 1023)
ConfigDescriptorCall ==
    /\ running = InitTask /\ pc = "cfg_loop"
    /\ IF configuration < desc_dev.configurations
       THEN LET b == Alloc(allocated) IN
            /\ desc_cfg_buf' = [addr |-> b, data |-> <<>>]
            /\ DescriptorBuild(allocated \cup {b}, DESC_CFG, configuration, b, DescCfgLen)
            /\ pc' = "ctl_frnum"
       ELSE /\ pc' = "dev_unalloc"
            /\ UNCHANGED <<allocated, tds, setups, qhs, ctl, desc_cfg_buf>>
    /\ UNCHANGED <<env_vars, io_log, hw_vars, hc_vars, frame_list_ptr, frame_list, desc_dev, port, address,
                   configuration, desc_cfg, i, hid, task_vars, hist_vars>>

\* let frame = (frnum.read() + 2) & 0x3FF
CtlReadFrnum ==
    /\ running = InitTask /\ pc = "ctl_frnum"
    /\ ctl' = [ctl EXCEPT !.frnum_read = frnum, !.frame = SlotFor(frnum)]
    /\ pc' = "ctl_install"
    /\ UNCHANGED <<env_vars, io_log, hw_vars, hc_vars, mem_vars, port, address, configuration, desc_cfg, i, hid,
                   task_vars, hist_vars>>

\* ptr::write(frame_list.offset(frame), queue_head.address() as u32 | 2)
CtlInstall ==
    /\ running = InitTask /\ pc = "ctl_install"
    /\ frame_list' = FrameWrite(ctl.frame, BitOr(ctl.queue_head, 2))
    /\ pc' = "ctl_wait_setup"
    /\ UNCHANGED <<env_vars, io_log, hw_vars, hc_vars, allocated, frame_list_ptr, tds, qhs, setups, desc_dev,
                   desc_cfg_buf, port, address, ctl, configuration, desc_cfg, i, hid,
                   task_vars, hist_vars>>

\* one pass of a loop { if td.load(0).ctrl_sts & (1 << 23) == 0 { break; } }
CtlPoll(here, td, after) ==
    /\ running = InitTask /\ pc = here
    /\ pc' = IF BitAnd(tds[td].ctrl_sts, Bit(23)) = 0 THEN after ELSE here
    /\ polls' = IF polls < 2 THEN polls + 1 ELSE polls
    /\ UNCHANGED <<env_vars, io_log, hw_vars, hc_vars, mem_vars, port, address, ctl, configuration, desc_cfg,
                   i, hid, task_vars>>

CtlWaitSetup ==
    CtlPoll("ctl_wait_setup", ctl.setup_td, "ctl_wait_in")

\* the release right after the wait on in_td, in descriptor too
AfterWaitInRelease(fn) == "ctl_release"

\* what follows the wait on in_td: the wait on out_td in descriptor, the release
\* in set_address
AfterWaitIn(fn) == IF fn = "descriptor" THEN "ctl_wait_out" ELSE "ctl_release"

CtlWaitIn ==
    CtlPoll("ctl_wait_in", ctl.in_td, AfterWaitIn(ctl.fn))

CtlWaitOut ==
    CtlPoll("ctl_wait_out", ctl.out_td, "ctl_release")

\* the release recomputes the slot from the FRNUM of the moment of the release
ReleaseSlotFromFrnum(frame) == BitAnd(U16(frnum + 2), 1023)

\* the slot a transfer writes back when it is over
ReleaseSlot(frame) == frame

\* ptr::write(frame_list.offset(frame), 1), the return and the drop of the
\* Memory objects of the call
CtlRelease ==
    /\ running = InitTask /\ pc = "ctl_release"
    /\ frame_list' = FrameWrite(ReleaseSlot(ctl.frame), Terminate)
    /\ LET objs == {ctl.out_td, ctl.in_td, ctl.setup, ctl.setup_td, ctl.queue_head} \ {0} IN
       /\ allocated' = allocated \ objs
       /\ tds' = Without(tds, objs)
       /\ qhs' = Without(qhs, objs)
       /\ setups' = Without(setups, objs)
    /\ ctl' = NoCall
    /\ pc' = IF ctl.fn = "set_address" THEN "descriptor_dev"
             ELSE IF ctl.kind = DESC_DEV THEN "cfg_loop"
             ELSE "walk_init"
    /\ configuration' = IF ctl.fn = "descriptor" /\ ctl.kind = DESC_DEV THEN 0
                        ELSE configuration
    /\ UNCHANGED <<env_vars, io_log, hw_vars, hc_vars, frame_list_ptr, desc_dev, desc_cfg_buf, port, address,
                   desc_cfg, i, hid, task_vars, polls>>

(***************************************************************************)
(* Uhci::device: the walk of the configuration blob.                       *)
(***************************************************************************)
\* ptr::read(desc_cfg_buf as *const ConfigDescriptor), hid = false, i = length
WalkInit ==
    /\ running = InitTask /\ pc = "walk_init"
    /\ \E b0 \in ByteAt(desc_cfg_buf.data, 0), b2 \in ByteAt(desc_cfg_buf.data, 2),
          b3 \in ByteAt(desc_cfg_buf.data, 3) :
          /\ desc_cfg' = [length |-> b0, total_length |-> BitOr(b2, Shl16(b3, 8))]
          /\ i' = b0
    /\ hid' = FALSE
    /\ pc' = "walk_cond"
    /\ UNCHANGED <<env_vars, io_log, hw_vars, hc_vars, mem_vars, port, address, ctl, configuration, task_vars,
                   hist_vars>>

\* while i < desc_cfg.total_length
WalkCond ==
    /\ running = InitTask /\ pc = "walk_cond"
    /\ pc' = IF i < desc_cfg.total_length THEN "walk_body" ELSE "cfg_unalloc"
    /\ UNCHANGED <<env_vars, io_log, hw_vars, hc_vars, mem_vars, port, address, ctl, configuration, desc_cfg,
                   i, hid, task_vars, hist_vars>>

\* the context Context::spawn("kuhci_hid") creates for an endpoint descriptor
NewPoller(desc_address, desc_max_packet_size) ==
    [pc |-> "start", endpoint |-> BitAnd(desc_address, 15),
     in_len |-> desc_max_packet_size, address |-> address, in_ptr |-> 0, in_td |-> 0,
     in_buf |-> <<>>, frnum_read |-> 0, frame |-> 0]

\* whether the DESC_END arm spawns a poller
Spawns(is_hid, desc_address, desc_attributes) == is_hid

\* i after a descriptor of the given length
Advance(index, length) == index + length

\* one pass of the loop body: read length and type, dispatch, i += length
WalkBody ==
    /\ running = InitTask /\ pc = "walk_body"
    /\ \E length \in ByteAt(desc_cfg_buf.data, i),
          descriptor_type \in ByteAt(desc_cfg_buf.data, i + 1) :
          /\ IF descriptor_type = DESC_END
             THEN \E a \in ByteAt(desc_cfg_buf.data, i + 2),
                     t \in ByteAt(desc_cfg_buf.data, i + 3),
                     m0 \in ByteAt(desc_cfg_buf.data, i + 4),
                     m1 \in ByteAt(desc_cfg_buf.data, i + 5) :
                     /\ IF Spawns(hid, a, t)
                        THEN /\ Len(pollers) < MaxPollers
                             /\ pollers' = Append(pollers, NewPoller(a, BitOr(m0, Shl16(m1, 8))))
                        ELSE pollers' = pollers
                     /\ hid' = hid
             ELSE /\ hid' = IF descriptor_type = DESC_HID THEN TRUE ELSE hid
                  /\ pollers' = pollers
          /\ i' = Advance(i, length)
    /\ pc' = "walk_cond"
    /\ UNCHANGED <<env_vars, io_log, hw_vars, hc_vars, mem_vars, port, address, ctl, configuration, desc_cfg,
                   running, intex, hist_vars>>

\* memory::unalloc(desc_cfg_buf), the end of the scope of desc_cfg, hid and i, and
\* the next configuration
ConfigUnalloc ==
    /\ running = InitTask /\ pc = "cfg_unalloc"
    /\ allocated' = allocated \ {desc_cfg_buf.addr}
    /\ desc_cfg_buf' = NoBuffer
    /\ configuration' = configuration + 1
    /\ desc_cfg' = [length |-> 0, total_length |-> 0]
    /\ i' = 0
    /\ hid' = FALSE
    /\ pc' = "cfg_loop"
    /\ UNCHANGED <<env_vars, io_log, hw_vars, hc_vars, frame_list_ptr, frame_list, tds, qhs, setups, desc_dev,
                   port, address, ctl, task_vars, hist_vars>>

\* memory::unalloc(desc_dev) and the return from device
DeviceUnalloc ==
    /\ running = InitTask /\ pc = "dev_unalloc"
    /\ allocated' = allocated \ {desc_dev.addr}
    /\ desc_dev' = NoDevice
    /\ address' = 0
    /\ configuration' = 0
    /\ pc' = "port_next"
    /\ UNCHANGED <<env_vars, io_log, hw_vars, hc_vars, frame_list_ptr, frame_list, tds, qhs, setups,
                   desc_cfg_buf, port, ctl, desc_cfg, i, hid, task_vars, hist_vars>>

(***************************************************************************)
(* Scheduler collaborator: the running context keeps the processor until   *)
(* it yields or sleeps.                                                    *)
(***************************************************************************)
\* init has returned: the spawned contexts get the processor
InitReturn ==
    /\ running = InitTask /\ pc = "done"
    /\ running' \in PollerIds
    /\ polls' = 0
    /\ UNCHANGED <<env_vars, io_log, hw_vars, hc_vars, mem_vars, init_vars, pollers, intex>>

(***************************************************************************)
(* The kuhci_hid context of poller p.                                      *)
(***************************************************************************)
\* memory::alloc(in_len), memory::alloc_type::<Td>()
HidStart(p) ==
    /\ running = p /\ pollers[p].pc = "start"
    /\ LET a == AllocSeq(allocated, 2) IN
       /\ allocated' = allocated \cup {a[1], a[2]}
       /\ pollers' = [pollers EXCEPT ![p].in_ptr = a[1], ![p].in_td = a[2],
                                     ![p].pc = "loop"]
       /\ tds' = With(tds, a[2] :> Td(0, 0, U32(0), 0))
    /\ UNCHANGED <<env_vars, io_log, hw_vars, hc_vars, frame_list_ptr, frame_list, qhs, setups, desc_dev,
                   desc_cfg_buf, init_vars, running, intex, hist_vars>>

\* the head of the loop: zero the buffer, ptr::write(in_td, Td { .. }),
\* Intex::static_lock(), let frame = (inw(frnum) + 2) & 0x3FF
HidReserve(p) ==
    /\ running = p /\ pollers[p].pc = "loop"
    /\ UNCHANGED env_vars
    /\ tds' = [tds EXCEPT ![pollers[p].in_td] =
                   HidInTd(pollers[p].in_len, pollers[p].endpoint, pollers[p].address,
                           pollers[p].in_ptr)]
    /\ intex = NoTask
    /\ intex' = p
    /\ pollers' = [pollers EXCEPT ![p].in_buf = [k \in 1 .. pollers[p].in_len |-> 0],
                                  ![p].frnum_read = frnum, ![p].frame = SlotFor(frnum),
                                  ![p].pc = "install"]
    /\ UNCHANGED <<io_log, hw_vars, hc_vars, allocated, frame_list_ptr, frame_list, qhs, setups,
                   desc_dev, desc_cfg_buf, init_vars, running, hist_vars>>

\* volatile_store(frame_list.offset(frame), in_td as u32) and the drop of the Intex
HidInstall(p) ==
    /\ running = p /\ pollers[p].pc = "install"
    /\ frame_list' = FrameWrite(pollers[p].frame, pollers[p].in_td)
    /\ intex' = NoTask
    /\ pollers' = [pollers EXCEPT ![p].pc = "poll"]
    /\ UNCHANGED <<env_vars, io_log, hw_vars, hc_vars, allocated, frame_list_ptr, tds, qhs, setups, desc_dev,
                   desc_cfg_buf, init_vars, running, hist_vars>>

\* one pass of the wait loop: volatile_load(in_td).ctrl_sts & (1 << 23) == 0 breaks,
\* otherwise context::context_switch(false)
HidPoll(p) ==
    /\ running = p /\ pollers[p].pc = "poll"
    /\ IF BitAnd(tds[pollers[p].in_td].ctrl_sts, Bit(23)) = 0
       THEN /\ pollers' = [pollers EXCEPT ![p].pc = "release"]
            /\ polls' = IF polls < 2 THEN polls + 1 ELSE polls
            /\ running' = running
       ELSE /\ pollers' = pollers
            /\ polls' = 0
            /\ running' \in PollerIds
    /\ UNCHANGED <<env_vars, io_log, hw_vars, hc_vars, mem_vars, init_vars, intex>>

\* ptr::read(in_ptr.offset(k)): the set of values the read may yield
BufAt(buf, k) == IF k < Len(buf) THEN {buf[k + 1]} ELSE UninitBytes

Min(a, b) == IF a < b THEN a ELSE b
Max(a, b) == IF a > b THEN a ELSE b

\* the division by 65536 instead of 32768
ScaleBy65536(v, res) == (v * res) \div 65536

\* (x * mode_info.xresolution as usize) / 32768
Scale(v, res) == (v * res) \div 32768

\* no clamp at all
ClampNone(res, m) == m

\* cmp::max(0, cmp::min(mode_info.xresolution as i32 - 1, mouse_x as i32))
Clamp(res, m) == Max(0, Min(res - 1, m))

\* the MouseEvent built from the buttons byte and the 16-bit x and y of a report
MouseEventOf(buttons, x, y, mode) ==
    [x |-> Clamp(mode.xresolution, Scale(x, mode.xresolution)),
     y |-> Clamp(mode.yresolution, Scale(y, mode.yresolution)),
     left_button |-> BitAnd(buttons, 1) = 1,
     middle_button |-> BitAnd(buttons, 4) = 4,
     right_button |-> BitAnd(buttons, 2) = 2]

\* if volatile_load(in_td).ctrl_sts & 0x7FF > 0
Emits(ctrl_sts) == BitAnd(ctrl_sts, 2047) > 0

\* the events one pass pushes: buttons = byte 0, x = bytes 1..2, y = bytes 3..4
Pushed(ctrl_sts, buf, mode) ==
    IF Emits(ctrl_sts)
    THEN {<<MouseEventOf(b0, b1 + 256 * b2, b3 + 256 * b4, mode)>> :
             b0 \in BufAt(buf, 0), b1 \in BufAt(buf, 1), b2 \in BufAt(buf, 2),
             b3 \in BufAt(buf, 3), b4 \in BufAt(buf, 4)}
    ELSE {<<>>}

\* volatile_store(frame_list.offset(frame), 1), the end of the scope of frame, the
\* push of the mouse event and Duration::new(0, 10 * time::NANOS_PER_MILLI).sleep()
HidRelease(p) ==
    /\ running = p /\ pollers[p].pc = "release"
    /\ frame_list' = FrameWrite(ReleaseSlot(pollers[p].frame), Terminate)
    /\ events' \in Pushed(tds[pollers[p].in_td].ctrl_sts, pollers[p].in_buf, mode_info)
    /\ mode_info' = mode_info
    /\ pollers' = [pollers EXCEPT ![p].pc = "loop", ![p].frame = 0, ![p].frnum_read = 0]
    /\ running' \in PollerIds
    /\ polls' = 0
    /\ UNCHANGED <<io_log, hw_vars, hc_vars, allocated, frame_list_ptr, tds, qhs, setups, desc_dev,
                   desc_cfg_buf, init_vars, intex>>

Hid == \E p \in PollerIds :
          \/ HidStart(p) \/ HidReserve(p) \/ HidInstall(p) \/ HidPoll(p) \/ HidRelease(p)

Next ==
    \/ HcFrame \/ HcIdle \/ HcComplete \/ HcError
    \/ InitGlobalReset \/ InitClearReset \/ InitFrnum \/ InitFrameList \/ InitFlbaseadd
    \/ InitRun \/ PortReset \/ PortResetClear \/ PortProbe \/ PortEnable \/ PortNext
    \/ SetAddressBuild \/ DeviceDescriptorCall \/ ConfigDescriptorCall
    \/ CtlReadFrnum \/ CtlInstall \/ CtlWaitSetup \/ CtlWaitIn \/ CtlWaitOut \/ CtlRelease
    \/ WalkInit \/ WalkCond \/ WalkBody \/ ConfigUnalloc \/ DeviceUnalloc
    \/ InitReturn
    \/ Hid

Spec == Init /\ [][Next]_vars

(***************************************************************************)
(* Properties.                                                             *)
(***************************************************************************)
\* a transfer is in flight from the write of its entry to the write of 1
CtlInFlight == pc \in {"ctl_wait_setup", "ctl_wait_in", "ctl_wait_out", "ctl_release"}
HidInFlight(p) == pollers[p].pc \in {"poll", "release"}
Reserved(s) ==
    \/ CtlInFlight /\ ctl.frame = s
    \/ \E p \in PollerIds : HidInFlight(p) /\ pollers[p].frame = s

\* C1: no two in-flight transfers occupy the same frame-list slot, whoever
\* submitted them (the init task's control transfers, the HID pollers).
C1_NoSharedSlot ==
    /\ \A p, q \in PollerIds :
          (p # q /\ HidInFlight(p) /\ HidInFlight(q)) => pollers[p].frame # pollers[q].frame
    /\ \A p \in PollerIds :
          (CtlInFlight /\ HidInFlight(p)) => ctl.frame # pollers[p].frame

\* C2: once the frame list is initialised, every step that writes a frame-list
\* slot (install or release) is taken by a context that holds the Intex, and
\* every read of FRNUM for a target slot leaves its reader holding the Intex, in
\* set_address and descriptor as in the poller.
C2_WritesUnderMutex ==
    [][/\ (frame_list_ptr # 0 /\ frame_list' # frame_list) => intex = running
       /\ (pc = "ctl_frnum" /\ pc' = "ctl_install") => intex' = running
       /\ \A p \in PollerIds :
             (pollers[p].pc = "loop" /\ pollers'[p].pc = "install") => intex' = running]_vars

\* C3: when the walk stands on a descriptor whose length byte is 0, its next
\* step leaves the loop instead of going back to the loop condition.
C3_ZeroLengthAborts ==
    [][(pc = "walk_body" /\ ByteAt(desc_cfg_buf.data, i) = {0}) => pc' # "walk_cond"]_vars

\* C4: no context polls a TD's ctrl_sts twice without a yield in between.
C4_YieldBetweenPolls == polls <= 1

\* some TD of the control transfer completed with an error bit of bits 22..17
ChainFailed ==
    \E t \in {ctl.out_td, ctl.in_td, ctl.setup_td} \ {0} :
       /\ ~IsActive(tds[t])
       /\ BitAnd(tds[t].ctrl_sts, ErrorMask) # 0

\* C5: when a control transfer ends with a failed TD, the enumerator issues
\* nothing more for the port: its next step is the end of the port's block.
C5_FailureAbortsPort ==
    [][(pc = "ctl_release" /\ ChainFailed /\ pc' # pc) => pc' = "port_next"]_vars

\* C6: a poller is spawned only for an endpoint descriptor whose address has
\* bit 7 set (IN) and whose attributes have the low two bits 0b11 (interrupt).
C6_EndpointFilter ==
    [][Len(pollers') > Len(pollers) =>
          /\ \A a \in ByteAt(desc_cfg_buf.data, i + 2) : a >= 128
          /\ \A t \in ByteAt(desc_cfg_buf.data, i + 3) : t % 4 = 3]_vars

\* the slots that hold something else than 1: {s \in Slots : FrameAt(s) # 1}
NonTerminateSlots ==
    IF frame_list.fill = 1
    THEN {s \in DOMAIN frame_list.set : frame_list.set[s] # 1}
    ELSE {s \in Slots : FrameAt(s) # 1}

\* C7: once the frame list is initialised, every slot that no in-flight
\* transfer has reserved holds 1 (Terminate): a slot that holds anything else is
\* reserved by an in-flight transfer.
C7_UnusedSlotsTerminate ==
    frame_list_ptr # 0 => \A s \in NonTerminateSlots : Reserved(s)

\* a poller is in flight in a slot that holds its entry while another poller has
\* completed a transfer and released its slot
C7_Witness ==
    /\ frame_list_ptr # 0
    /\ \E p, q \in PollerIds :
          /\ p # q
          /\ HidInFlight(p) /\ FrameAt(pollers[p].frame) = pollers[p].in_td
          /\ pollers[q].pc = "loop" /\ pollers[q].in_td # 0
          /\ tds[pollers[q].in_td].token # U32(0)
          /\ ~IsActive(tds[pollers[q].in_td])

\* C8: a submitter that read the FRNUM value f writes its entry to slot
\* (f + 2) mod 1024 and nothing else, and its release writes 1 to that same slot,
\* whatever FRNUM is by then.
C8_SlotPick ==
    [][/\ (pc = "ctl_frnum" /\ pc' = "ctl_install") => ctl'.frnum_read = frnum
       /\ (pc = "ctl_install" /\ pc' = "ctl_wait_setup") =>
             frame_list' = FrameWrite((ctl.frnum_read + 2) % 1024, ctl.queue_head + 2)
       /\ (pc = "ctl_release" /\ pc' # pc) =>
             frame_list' = FrameWrite((ctl.frnum_read + 2) % 1024, 1)
       /\ \A p \in PollerIds :
             /\ (pollers[p].pc = "loop" /\ pollers'[p].pc = "install") =>
                   pollers'[p].frnum_read = frnum
             /\ (pollers[p].pc = "install" /\ pollers'[p].pc = "poll") =>
                   frame_list' = FrameWrite((pollers[p].frnum_read + 2) % 1024,
                                            pollers[p].in_td)
             /\ (pollers[p].pc = "release" /\ pollers'[p].pc = "loop") =>
                   frame_list' = FrameWrite((pollers[p].frnum_read + 2) % 1024, 1)]_vars

\* a poller about to release slot 0, picked at FRNUM 1022, after FRNUM moved on
C8_Witness ==
    \E p \in PollerIds :
       /\ pollers[p].pc = "release"
       /\ pollers[p].frnum_read = 1022
       /\ pollers[p].frame = 0
       /\ frnum # pollers[p].frnum_read

\* the chain of a set_address call as built, before the controller touches it
SetAddressBuilt == ctl.fn = "set_address" /\ pc \in {"ctl_frnum", "ctl_install"}

\* C9: set_address builds exactly two TDs, Setup -> IN status, both Active and
\* addressed to device 0; Setup: PID 0x2D, MaxLength field 7, buffer = the Setup
\* packet {0, 5, address, 0, 0}, link = status TD | 4; status: PID 0x69,
\* MaxLength field 0x7FF, buffer 0, link 1; QH: head_ptr 1, element_ptr = Setup
\* TD; the frame-list entry is qh | 2.
C9_SetAddressChain ==
    /\ SetAddressBuilt =>
          /\ DOMAIN tds = {ctl.setup_td, ctl.in_td}
          /\ ctl.setup_td # ctl.in_td
          /\ tds[ctl.setup_td] =
                [link_ptr |-> ctl.in_td + 4, ctrl_sts |-> 8388608,
                 token |-> <<224, 45>>, buffer |-> ctl.setup]
          /\ setups[ctl.setup] =
                [request_type |-> 0, request |-> 5, value |-> address, index |-> 0,
                 len |-> 0]
          /\ tds[ctl.in_td] =
                [link_ptr |-> 1, ctrl_sts |-> 8388608, token |-> <<65504, 105>>,
                 buffer |-> 0]
          /\ qhs[ctl.queue_head] = [head_ptr |-> 1, element_ptr |-> ctl.setup_td]
    /\ (ctl.fn = "set_address" /\ CtlInFlight) =>
          FrameAt(ctl.frame) = ctl.queue_head + 2

\* the SET_ADDRESS(2) of the second port is installed
C9_Witness ==
    /\ ctl.fn = "set_address"
    /\ pc = "ctl_wait_setup"
    /\ address = 2
    /\ FrameAt(ctl.frame) = ctl.queue_head + 2

\* the chain of a descriptor call as built, before the controller touches it
DescriptorBuilt == ctl.fn = "descriptor" /\ pc \in {"ctl_frnum", "ctl_install"}
\* the buffer and the length the running descriptor call was given
DescriptorPtr == IF ctl.kind = DESC_DEV THEN desc_dev.addr ELSE desc_cfg_buf.addr
DescriptorLen == IF ctl.kind = DESC_DEV THEN 18 ELSE 1023

\* the parts of the GET_DESCRIPTOR chain other than the link of the data TD
DescriptorChainBut(data_link) ==
    /\ DescriptorBuilt =>
          /\ DOMAIN tds = {ctl.setup_td, ctl.in_td, ctl.out_td}
          /\ Cardinality({ctl.setup_td, ctl.in_td, ctl.out_td}) = 3
          /\ tds[ctl.setup_td].link_ptr = ctl.in_td + 4
          /\ tds[ctl.setup_td].ctrl_sts = 8388608
          /\ tds[ctl.setup_td].token = <<224, address * 256 + 45>>
          /\ tds[ctl.in_td].link_ptr = data_link
          /\ tds[ctl.in_td].ctrl_sts = 8388608
          /\ tds[ctl.in_td].token = <<(DescriptorLen - 1) * 32, address * 256 + 105>>
          /\ tds[ctl.in_td].buffer = DescriptorPtr
          /\ tds[ctl.out_td] =
                [link_ptr |-> 1, ctrl_sts |-> 8388608,
                 token |-> <<65504, address * 256 + 225>>, buffer |-> 0]
          /\ qhs[ctl.queue_head].element_ptr = ctl.setup_td
    /\ (ctl.fn = "descriptor" /\ CtlInFlight) =>
          FrameAt(ctl.frame) = ctl.queue_head + 2

\* C10 as stated: the link of the data TD is the address of the status TD.
C10_DataLinkPlain == DescriptorChainBut(ctl.out_td)

\* C10: descriptor builds exactly three TDs, Setup -> IN data -> OUT status, all
\* Active and carrying the device address; Setup: PID 0x2D, MaxLength field 7,
\* link = data TD | 4; data: PID 0x69, MaxLength field descriptor_len - 1,
\* buffer = the descriptor buffer, link = status TD | 4 (depth-first, like the
\* Setup TD); status: PID 0xE1, MaxLength field 0x7FF, buffer 0, link 1; QH
\* element_ptr = Setup TD; the frame-list entry is qh | 2.
C10_DescriptorChain == DescriptorChainBut(ctl.out_td + 4)

\* the GET_DESCRIPTOR(Configuration) of the second port is installed
C10_Witness ==
    /\ ctl.fn = "descriptor"
    /\ ctl.kind = DESC_CFG
    /\ pc = "ctl_wait_setup"
    /\ address = 2
    /\ FrameAt(ctl.frame) = ctl.queue_head + 2

(***************************************************************************)
(* The report decode of the poller on its own: a poller of the device on   *)
(* port 1 whose transfer has completed with a 5-byte report, under several *)
(* display modes.                                                          *)
(***************************************************************************)
\* display modes
Modes ==
    {[xresolution |-> r[1], yresolution |-> r[2]] :
        r \in {<<1, 1>>, <<640, 480>>, <<1024, 768>>, <<32767, 32767>>}}
\* buttons bytes and 16-bit coordinates of the reports
ReportButtons == {0, 1, 2, 4, 7}
ReportCoordinates == {0, 8192, 16384, 32767, 32768, 65535}
\* the five bytes of a boot-protocol report
Report(buttons, x, y) == <<buttons, x % 256, x \div 256, y % 256, y \div 256>>

\* the port I/O of an init that found a device on port 1 only
LogPortOneOnly ==
    <<Io("usbcmd", 0, 6), Io("usbcmd", 0, 0), Io("frnum", 0, 0), Io("frame_list", 0, 1),
      Io("flbaseadd", 0, HeapBase), Io("usbcmd", 0, 1),
      Io("portsc", 1, 512), Io("portsc", 1, 0), Io("portsc", 1, 4), Io("device", 1, 1),
      Io("portsc", 2, 512), Io("portsc", 2, 0)>>

MouseInit ==
    \E mode \in Modes, buttons \in ReportButtons, x \in ReportCoordinates,
       y \in ReportCoordinates, f \in FrnumSamples :
       LET in_ptr == HeapBase + ClusterSize
           in_td == HeapBase + 2 * ClusterSize
           td == HidInTd(5, 1, 1, in_ptr)
       IN
       /\ usbcmd = 1
       /\ frnum = (f + 2) % FrnumModulus
       /\ flbaseadd = HeapBase
       /\ portsc = [p \in Ports |-> IF p = 1 THEN 4 ELSE 0]
       /\ present = [p \in Ports |-> p = 1]
       /\ hc_td = 0 /\ hc_qh = 0 /\ age = 2
       /\ allocated = {HeapBase, in_ptr, in_td}
       /\ frame_list_ptr = HeapBase
       /\ frame_list = [fill |-> 1, set |-> (SlotFor(f) :> in_td)]
       /\ tds = (in_td :> [td EXCEPT !.ctrl_sts = Completed(td.ctrl_sts, 5)])
       /\ qhs = Empty /\ setups = Empty
       /\ desc_dev = NoDevice
       /\ desc_cfg_buf = NoBuffer
       /\ pc = "done"
       /\ port = 2
       /\ address = 0
       /\ ctl = NoCall
       /\ configuration = 0
       /\ desc_cfg = [length |-> 0, total_length |-> 0]
       /\ i = 0
       /\ hid = FALSE
       /\ pollers = <<[pc |-> "release", endpoint |-> 1, in_len |-> 5, address |-> 1,
                       in_ptr |-> in_ptr, in_td |-> in_td,
                       in_buf |-> Report(buttons, x, y), frnum_read |-> f,
                       frame |-> SlotFor(f)]>>
       /\ running = 1
       /\ intex = NoTask
       /\ mode_info = mode
       /\ events = <<>>
       /\ polls = 1
       /\ io_log = LogPortOneOnly

\* the release, decode and push of the poller
MouseNext == \E p \in PollerIds : HidRelease(p)

SpecMouse == MouseInit /\ [][MouseNext]_vars

\* the 16-bit X and Y of the report in the buffer of poller 1
ReportX == pollers[1].in_buf[2] + 256 * pollers[1].in_buf[3]
ReportY == pollers[1].in_buf[4] + 256 * pollers[1].in_buf[5]
\* the poller has pushed an event for the report in its buffer
Decoded == Len(pollers) = 1 /\ Len(pollers[1].in_buf) = 5 /\ events # <<>>

\* C11: the event pushed for a report has x = clamp((X * xres) / 32768, 0,
\* xres - 1) and y = clamp((Y * yres) / 32768, 0, yres - 1), both within the
\* screen also for X, Y >= 32768, and left, right, middle are bits 0, 1, 2 of
\* the buttons byte.
C11_MouseScaling ==
    Decoded =>
       LET xres == mode_info.xresolution
           yres == mode_info.yresolution
           mx == (ReportX * xres) \div 32768
           my == (ReportY * yres) \div 32768
           b == pollers[1].in_buf[1]
           e == events[1]
       IN
       /\ e.x = (IF mx > xres - 1 THEN xres - 1 ELSE IF mx < 0 THEN 0 ELSE mx)
       /\ e.y = (IF my > yres - 1 THEN yres - 1 ELSE IF my < 0 THEN 0 ELSE my)
       /\ 0 <= e.x /\ e.x <= xres - 1
       /\ 0 <= e.y /\ e.y <= yres - 1
       /\ e.left_button = (b % 2 = 1)
       /\ e.right_button = ((b \div 2) % 2 = 1)
       /\ e.middle_button = ((b \div 4) % 2 = 1)

\* a report with X = 0x8000 and Y = 0xFFFF on a 640x480 screen was clamped to
\* the last column and row
C11_Witness ==
    /\ Decoded
    /\ mode_info = [xresolution |-> 640, yresolution |-> 480]
    /\ ReportX = 32768 /\ ReportY = 65535
    /\ events[1].x = 639 /\ events[1].y = 479
    /\ events[1].left_button /\ events[1].middle_button /\ events[1].right_button

\* the report {buttons = 0x01, X = 0x4000, Y = 0x2000} on a 1024x768 screen
ExampleReport ==
    /\ Decoded
    /\ mode_info = [xresolution |-> 1024, yresolution |-> 768]
    /\ pollers[1].in_buf = Report(1, 16384, 8192)

\* the example with the event (x, y), and X = 0x7FFF giving x = 1023
ExampleGives(x, y) ==
    /\ ExampleReport =>
          events[1] = [x |-> x, y |-> y, left_button |-> TRUE, middle_button |-> FALSE,
                       right_button |-> FALSE]
    /\ (Decoded /\ mode_info.xresolution = 1024 /\ ReportX = 32767) => events[1].x = 1023

\* C12 as stated: the example report gives the event x = 511, y = 255.
C12_ExampleAsStated == ExampleGives(511, 255)

\* C12: with xres = 1024, yres = 768 the report {buttons = 0x01, X = 0x4000,
\* Y = 0x2000} gives the event {x = 512, y = 192, left, not middle, not right},
\* the values of (X * xres) / 32768 and (Y * yres) / 32768; X = 0x7FFF gives
\* x = 1023.
C12_Example == ExampleGives(512, 192)

\* the example report has been decoded
C12_Witness == ExampleReport /\ events[1].left_button

(***************************************************************************)
(* Properties of the port probe and of the address init passes on.         *)
(***************************************************************************)
\* init is inside the block of a root port
InPortBlock ==
    /\ running = InitTask
    /\ pc \notin {"usbcmd_reset", "usbcmd_clear", "frnum_zero", "frame_list_alloc",
                  "flbaseadd_write", "usbcmd_run", "done"}
\* the log has a PortEnable write or a device() call for port p
Enabled(log, p) ==
    \E k \in DOMAIN log :
       /\ log[k].port = p
       /\ \/ log[k].reg = "device"
          \/ log[k].reg = "portsc" /\ log[k].value = 4

\* C13: a root port whose CurrentConnectStatus reads 0 gets no PortEnable write
\* and no device() call, and while init is in its block nothing is written to
\* the frame list and no transfer is built; with a device on port 1 only, every
\* SET_ADDRESS that is built is SET_ADDRESS(1).
C13_EmptyPortSkipped ==
    [][/\ \A p \in Ports : (~present[p]) => ~Enabled(io_log', p)
       /\ (InPortBlock /\ ~present[port]) => (frame_list' = frame_list /\ ctl' = NoCall)
       /\ (present[1] /\ ~present[2] /\ ctl'.fn = "set_address") =>
             (port = 1 /\ setups'[ctl'.setup].value = 1)]_vars

\* init has returned: port 1 had a HID device and was enumerated, port 2 was
\* reset, read as empty and skipped
C13_Witness ==
    /\ pc = "done"
    /\ present[1] /\ ~present[2]
    /\ pollers # <<>>
    /\ Enabled(io_log, 1)
    /\ io_log[Len(io_log)] = Io("portsc", 2, 0)

\* positions of the device() calls in the log
DeviceCalls == {k \in DOMAIN io_log : io_log[k].reg = "device"}
\* the address of the SET_ADDRESS request being built or in flight
SetAddressValue == setups[ctl.setup].value

\* C14 as stated: the k-th port found connected is given address k, so the
\* first one always gets address 1.
C14_AddressesInOrder ==
    /\ \A k \in DeviceCalls :
          io_log[k].value = Cardinality({j \in DeviceCalls : j <= k})
    /\ ctl.fn = "set_address" => SetAddressValue = Cardinality(DeviceCalls)

\* C14: the device found on root port p is given address p (1 for port 1, 2 for
\* port 2), whether or not the other port has a device; the addresses are
\* 1, 2, ... in port order only when port 1 has a device.
C14_AddressIsPort ==
    /\ \A k \in DeviceCalls : io_log[k].value = io_log[k].port
    /\ ctl.fn = "set_address" => SetAddressValue = port
    /\ present[1] => C14_AddressesInOrder

\* port 1 is empty and the SET_ADDRESS of the device on port 2 is installed
C14_Witness ==
    /\ ~present[1] /\ present[2]
    /\ ctl.fn = "set_address"
    /\ pc = "ctl_wait_setup"
    /\ SetAddressValue = 2
    /\ Cardinality(DeviceCalls) = 1

(***************************************************************************)
(* Properties of the walk of the configuration blob.                       *)
(***************************************************************************)
\* whether the interface that encloses offset k is HID: walking the descriptors
\* from offset from, an INTERFACE descriptor starts an interface that is not HID
\* and a HID descriptor marks the interface it is in
RECURSIVE InterfaceIsHid(_, _, _, _)
InterfaceIsHid(data, from, k, mark) ==
    IF from >= k \/ from + 1 >= Len(data) \/ data[from + 1] = 0 THEN mark
    ELSE InterfaceIsHid(data, from + data[from + 1], k,
                        IF data[from + 2] = DESC_INT THEN FALSE
                        ELSE IF data[from + 2] = DESC_HID THEN TRUE
                        ELSE mark)

\* C15: a poller is spawned for an endpoint descriptor only when the interface
\* that encloses it has a HID descriptor; an INTERFACE descriptor ends the HID
\* mark of the interface before it.
C15_HidScopedToInterface ==
    [][Len(pollers') > Len(pollers) =>
          InterfaceIsHid(desc_cfg_buf.data, desc_cfg.length, i, FALSE)]_vars

(***************************************************************************)
(* Properties of the kuhci_hid poller.                                     *)
(***************************************************************************)
\* the ActualLength field of the TD of poller p: the low 11 bits of ctrl_sts
ActLen(p) == tds[pollers[p].in_td].ctrl_sts % 2048
\* poller p goes from the release of its slot to its sleep
Finishes(p) == pollers[p].pc = "release" /\ pollers'[p].pc = "loop"

\* C16: a poller pushes an event after a completion exactly when the transfer
\* moved data: none when the ActualLength field is 0x7FF (zero bytes), one for
\* every other value of the field, 0 (one byte) included.
C16_EmitsIffNonEmpty ==
    [][\A p \in PollerIds :
          Finishes(p) => ((events' # <<>>) <=> (ActLen(p) # 2047))]_vars

\* C17: the walk never reads the 1023-byte buffer at an offset >= 1023: the
\* body of the loop, which reads the bytes at i and i + 1, runs only with
\* i + 1 < 1023.
C17_WalkInBounds == pc = "walk_body" => i + 1 < DescCfgLen

\* C18: the entry a poller has installed stays in its slot while the poller
\* waits for its TD, which the controller has not executed yet: no step of
\* another submitter overwrites the slot and no release of another task writes
\* 1 to it.
C18_EntryStays ==
    [][\A p \in PollerIds : \A s \in {pollers[p].frame} :
          (/\ pollers[p].pc = "poll"
           /\ IsActive(tds[pollers[p].in_td])
           /\ FrameAt(s) = pollers[p].in_td) => FrameAt(s)' = pollers[p].in_td]_vars

(***************************************************************************)
(* Properties of the order of the steps of a control transfer and of init. *)
(***************************************************************************)
\* the TDs of the chain of the control transfer in progress
ChainTds == {ctl.setup_td, ctl.in_td, ctl.out_td} \ {0}

\* C19: a control transfer leaves the wait on a TD only when that TD is
\* inactive, waits in the order Setup, data or IN status, OUT status, does not
\* touch the frame list while it waits, and writes its slot back to 1 only when
\* every TD of its chain is inactive.
C19_ReleaseAfterWaits ==
    [][/\ (pc = "ctl_wait_setup" /\ pc' # pc) =>
             (~IsActive(tds[ctl.setup_td]) /\ pc' = "ctl_wait_in")
       /\ (pc = "ctl_wait_in" /\ pc' # pc) =>
             /\ ~IsActive(tds[ctl.in_td])
             /\ pc' = (IF ctl.out_td # 0 THEN "ctl_wait_out" ELSE "ctl_release")
       /\ (pc = "ctl_wait_out" /\ pc' # pc) =>
             (~IsActive(tds[ctl.out_td]) /\ pc' = "ctl_release")
       /\ (pc \in {"ctl_wait_setup", "ctl_wait_in", "ctl_wait_out"}) =>
             frame_list' = frame_list
       /\ (pc = "ctl_release" /\ pc' # pc) =>
             /\ \A t \in ChainTds : ~IsActive(tds[t])
             /\ \E s \in {ctl.frame} : FrameAt(s) = ctl.queue_head + 2 /\ FrameAt(s)' = 1]_vars

\* a GET_DESCRIPTOR whose three TDs the controller has executed is about to
\* release its slot
C19_Witness ==
    /\ pc = "ctl_release"
    /\ ctl.fn = "descriptor"
    /\ Cardinality(ChainTds) = 3
    /\ \A t \in ChainTds : ~IsActive(tds[t]) /\ BitAnd(tds[t].ctrl_sts, ErrorMask) = 0
    /\ FrameAt(ctl.frame) = ctl.queue_head + 2

\* the writes that bring the controller up, in the order init makes them
BringUp ==
    <<Io("usbcmd", 0, 6), Io("usbcmd", 0, 0), Io("frnum", 0, 0), Io("frame_list", 0, 1),
      Io("flbaseadd", 0, frame_list_ptr), Io("usbcmd", 0, 1)>>

\* C20: init writes USBCMD <- 0b110, USBCMD <- 0, FRNUM <- 0, fills the 1024
\* slots with 1, writes FLBASEADD and only then USBCMD <- 1; while the
\* controller runs FLBASEADD is the frame list and, no transfer being in flight,
\* all slots hold 1; every port write, device() call and transfer comes after
\* Run; nothing of port 2 happens before everything of port 1.
C20_InitOrder ==
    /\ \A k \in DOMAIN io_log : k <= Len(BringUp) => io_log[k] = BringUp[k]
    /\ \A k \in DOMAIN io_log : io_log[k].port # 0 <=> k > Len(BringUp)
    /\ Running <=> Len(io_log) >= Len(BringUp)
    /\ Running => (flbaseadd = frame_list_ptr /\ frame_list_ptr # 0 /\ frame_list.fill = 1)
    /\ (ctl # NoCall \/ pollers # <<>> \/ pc \in {"port_reset_clear", "port_probe"}) => Running
    /\ (~Running) => (portsc = [p \in Ports |-> 0] /\ frame_list.set = Empty)
    /\ \A k \in 2 .. Len(io_log) : io_log[k - 1].port = 2 => io_log[k].port = 2
    /\ (port = 1 \/ address = 1) => \A k \in DOMAIN io_log : io_log[k].port # 2

\* init has returned after it enumerated a device on each port, port 1 first
C20_Witness ==
    /\ pc = "done"
    /\ Len(io_log) = 14
    /\ SubSeq(io_log, 1, 6) = BringUp
    /\ io_log[10] = Io("device", 1, 1)
    /\ io_log[11] = Io("portsc", 2, 512)
    /\ io_log[14] = Io("device", 2, 2)

====
